---- MODULE Spec2Model ----
(***************************************************************************)
(* Model of app/api_clients.py (provider adapters, APIClientFactory,       *)
(* UnifiedAPIClient) and of the circuit-breaker globals of                 *)
(* app/extensions.py.                                                      *)
(*                                                                         *)
(* Python objects are modelled by their identity: a handle is its index in *)
(* `handles` (the order of construction), a circuit breaker is the number  *)
(* of the init_circuit_breakers call that built it.  Strings that the code *)
(* only searches for keywords are sequences of tokens.  Wall-clock fields  *)
(* (response_time) are left out.                                           *)
(***************************************************************************)
EXTENDS Integers, Sequences, FiniteSets, TLC

(* ------------------------------ bounds -------------------------------- *)
\* number of fallback providers of a plan
MaxFallbacks == 1
\* number of adapter objects constructed in one run
MaxHandles == 3
\* number of init_circuit_breakers calls in one run
MaxInits == 1
\* successful orchestrated requests counted in one run
MaxRequests == 2
\* callers that run at the same time
MaxThreads == 2
\* create_app calls in one run
MaxApps == 2
\* record_query calls of one query type in one run
MaxQueries == 3
\* nesting depth of the JSON bodies that are logged
MaxDepth == 3

(* ----------------------------- constants ------------------------------ *)

None == "None"
Empty == ""
OPENAI == "openai"
ANTHROPIC == "anthropic"
\* enum APIProvider
APIProvider == {OPENAI, ANTHROPIC}
\* API keys used in the runs
Keys == {"k1", "k2", "k3"}
\* what a caller passes as api_key (missing, empty, or a key)
ApiKeyArgs == {None, Empty} \cup Keys
\* what the environment holds for OPENAI_API_KEY / ANTHROPIC_API_KEY
EnvValues == {None, "k1"}
\* what a caller of the orchestrator passes as api_key
CallKeyArgs == {None, "k1"}

\* hash(api_key): the builtin maps the strings into a fixed range of integers and
\* is not injective; k1 and k3 stand for two keys with the same hash value
PyHash(api_key) ==
    CASE api_key = "k1" -> 11
      [] api_key = "k2" -> 22
      [] api_key = "k3" -> 11

\* Python truth value of an optional string
Truthy(x) == x \notin {None, Empty}
\* Python `a or b`
PyOr(a, b) == IF Truthy(a) THEN a ELSE b

VARIABLES
    env,                \* os.environ: provider -> value of its *_API_KEY variable
    breakers,           \* extensions.openai_breaker / anthropic_breaker: 0 (None) or breaker id
    cb,                 \* breaker objects: <<provider, id>> -> [state]
    clients,            \* APIClientFactory._clients: client_key -> handle
    handles,            \* adapter objects ever constructed, by identity
    primary_provider,   \* UnifiedAPIClient.primary_provider
    fallback_providers, \* UnifiedAPIClient.fallback_providers
    request_count,      \* UnifiedAPIClient.request_count
    pc,                 \* position of the orchestrated call: idle, loop, done
    pos,                \* index of the provider the for loop is at
    op,                 \* operation of the call: completion or chat
    kwargs,             \* keyword arguments of the call
    trace,              \* what each pass of the loop of the call did
    result,             \* APIResponse the call returns
    entry_count,        \* request_count when the call was entered
    lastCall,           \* the last adapter call made by application code
    lastGet,            \* outcome of the last direct APIClientFactory.get_client call
    returned,           \* <<provider, credential, handle>> handed out since the last clear
    retired,            \* <<provider, credential, handle>> handed out before the last clear
    succeeded,          \* orchestrated calls on the client that returned success=True
    th,                 \* callers running at the same time: thread -> its position and locals
    stats,              \* what the last get_stats call returned
    redis_client,       \* extensions.redis_client: the client object, by kind and identity
    cache_manager,      \* database.cache_manager: the CacheManager and the client it was given
    store,              \* data behind the clients: 0 (the Redis server) or mock identity -> key -> value
    lastCache,          \* outcome of the last CacheManager operation called directly
    chat,               \* the ai_chat request being served and its response
    checks,             \* HealthChecker.checks: the registered check names, in order
    health,             \* what the last run_all_checks call returned
    query_stats,        \* DatabaseMonitor.query_stats
    logged              \* json_data of the last request_started log record

vars == <<env, breakers, cb, clients, handles, primary_provider,
          fallback_providers, request_count, pc, pos, op, kwargs, trace,
          result, entry_count, lastCall, lastGet, returned, retired,
          succeeded, th, stats, redis_client, cache_manager, store, lastCache,
          chat, checks, health, query_stats, logged>>

procVars == <<env>>
planVars == <<primary_provider, fallback_providers>>
callVars == <<pc, pos, op, kwargs, trace, result, entry_count>>
threadVars == <<th>>
cacheVars == <<redis_client, cache_manager, store, lastCache, chat>>
appVars == <<cacheVars, checks, health, query_stats, logged>>

(* ------------------------- error classification ----------------------- *)
\* str.lower() on the tokens of a message
Lower(tok) ==
    CASE tok = "Rate limit" -> "rate limit"
      [] tok = "Unauthorized" -> "unauthorized"
      [] tok = "Authentication" -> "authentication"
      [] tok = "Quota" -> "quota"
      [] OTHER -> tok

\* `kw in error_message.lower()`
Contains(msg, kw) == \E i \in 1 .. Len(msg) : Lower(msg[i]) = kw

\* messages of the exceptions the provider SDK raises
ErrorMessages ==
    { <<"Rate limit", "exceeded for requests">>,
      <<"Unauthorized">>,
      <<"You exceeded your current", "quota">>,
      <<"billing", "hard limit reached">>,
      <<"Connection timed out">>,
      <<"quota", "Rate limit">>,
      <<"Authentication", "billing">> }

NotCallableMsg == <<"'CircuitBreakerError' object is not callable">>
AnthropicUnavailableMsg == <<"Anthropic service temporarily unavailable">>
IndexErrorMsg == <<"list index out of range">>

\* Optional[str] error = None, Optional[int] tokens_used = None
NoError == <<>>
NoTokens == -1

\* dataclass APIResponse (response_time left out)
APIResponse(success, data, error, provider, model, tokens_used) ==
    [success |-> success, data |-> data, error |-> error,
     provider |-> provider, model |-> model, tokens_used |-> tokens_used]

\* no APIResponse (the call has not returned)
NoResult ==
    [success |-> FALSE, data |-> None, error |-> NoError, provider |-> None,
     model |-> None, tokens_used |-> NoTokens]

\* (mutant) the quota keywords are looked for before the others
HandleErrorQuotaFirst(error_message, provider) ==
    IF Contains(error_message, "quota") \/ Contains(error_message, "billing")
    THEN APIResponse(FALSE, None, <<"API quota exceeded">>, provider, None, NoTokens)
    ELSE IF Contains(error_message, "rate limit")
    THEN APIResponse(FALSE, None, <<"Rate limit exceeded">>, provider, None, NoTokens)
    ELSE IF Contains(error_message, "authentication")
              \/ Contains(error_message, "unauthorized")
    THEN APIResponse(FALSE, None, <<"Authentication failed">>, provider, None, NoTokens)
    ELSE APIResponse(FALSE, None, <<"API error: ">> \o error_message, provider,
                     None, NoTokens)

\* (mutant) a failure keeps a payload next to its reason
HandleErrorWithPayload(error_message, provider) ==
    APIResponse(FALSE, "partial", <<"API error: ">> \o error_message, provider,
                None, NoTokens)

\* BaseAPIClient._handle_error
HandleError(error_message, provider) ==
    IF Contains(error_message, "rate limit")
    THEN APIResponse(FALSE, None, <<"Rate limit exceeded">>, provider, None, NoTokens)
    ELSE IF Contains(error_message, "authentication")
              \/ Contains(error_message, "unauthorized")
    THEN APIResponse(FALSE, None, <<"Authentication failed">>, provider, None, NoTokens)
    ELSE IF Contains(error_message, "quota") \/ Contains(error_message, "billing")
    THEN APIResponse(FALSE, None, <<"API quota exceeded">>, provider, None, NoTokens)
    ELSE APIResponse(FALSE, None, <<"API error: ">> \o error_message, provider,
                     None, NoTokens)

(* --------------------------- circuit breaker -------------------------- *)
Raise(exc, msg) == [kind |-> "raise", exc |-> exc, msg |-> msg]

\* pybreaker.CircuitBreaker(fail_max=5, reset_timeout=60) as constructed.
\* The failure counter is the library's: whether a failure reaches fail_max
\* (trips the breaker) is an input of the guarded call.
NewBreaker == [state |-> "closed"]

\* (mutant) an open breaker lets the call through
BreakerCallThrough(b, native, elapsed, trip) ==
    IF native.kind = "response"
    THEN [out |-> native, b |-> [state |-> "closed"], used |-> TRUE, net |-> TRUE]
    ELSE IF trip
    THEN [out |-> Raise("CircuitBreakerError", <<"Failures threshold reached">>),
          b |-> [state |-> "open"], used |-> TRUE, net |-> TRUE]
    ELSE [out |-> native, b |-> b, used |-> TRUE, net |-> TRUE]

\* circuit_breaker(request_func)(*args): the guarded call.  b is the breaker
\* object, native what request_func does when invoked, elapsed whether
\* reset_timeout has passed since the breaker opened, trip whether a failure
\* of this call reaches fail_max.
\* Yields the outcome, the breaker afterwards and whether request_func ran.
BreakerCall(b, native, elapsed, trip) ==
    IF b.state = "open" /\ ~elapsed
    THEN [out |-> Raise("CircuitBreakerError", <<"Timeout not elapsed yet">>),
          b |-> b, used |-> TRUE, net |-> FALSE]
    ELSE IF native.kind = "response"
    THEN [out |-> native, b |-> [state |-> "closed"], used |-> TRUE, net |-> TRUE]
    ELSE IF b.state = "open"
    THEN [out |-> Raise("CircuitBreakerError", <<"Trial call failed">>),
          b |-> b, used |-> TRUE, net |-> TRUE]
    ELSE IF trip
    THEN [out |-> Raise("CircuitBreakerError", <<"Failures threshold reached">>),
          b |-> [state |-> "open"], used |-> TRUE, net |-> TRUE]
    ELSE [out |-> native, b |-> b, used |-> TRUE, net |-> TRUE]

(* ------------------------------ adapters ------------------------------ *)
\* str.strip() on the response texts
Strip(text) == IF text = " hello " THEN "hello" ELSE text

\* what the provider's native request function does when it is invoked
NativeResponses ==
    [kind : {"response"}, text : {"hello", " hello "}, model : {"m1"},
     input_tokens : {2}, output_tokens : {1}, wellformed : BOOLEAN]
NativeErrors == {Raise("native", m) : m \in ErrorMessages}
NativeOutcomes == NativeResponses \cup NativeErrors

\* usage.total_tokens of an OpenAI response
TotalTokens(r) == r.input_tokens + r.output_tokens

\* OpenAIClient._make_request: the decorator line binds the name to a
\* CircuitBreakerError instance, so self._make_request(...) is a call of an
\* exception object; neither the breaker nor request_func is reached.
OpenAIMakeRequest(self, native, elapsed, trip) ==
    [out |-> Raise("TypeError", NotCallableMsg), b |-> NewBreaker, used |-> FALSE,
     net |-> FALSE]

\* AnthropicClient._make_request
AnthropicMakeRequest(self, native, elapsed, trip) ==
    IF self.circuit_breaker # 0
    THEN LET r == BreakerCall(cb[<<ANTHROPIC, self.circuit_breaker>>],
                              native, elapsed, trip)
         IN  IF r.out.kind = "raise" /\ r.out.exc = "CircuitBreakerError"
             THEN [r EXCEPT !.out = Raise("APIClientError", AnthropicUnavailableMsg)]
             ELSE r
    ELSE [out |-> native, b |-> NewBreaker, used |-> FALSE, net |-> TRUE]

\* no exception
NoRaise == [kind |-> "none", exc |-> None, msg |-> <<>>]

\* what the body of the `try` of a generate_* method ends with once
\* _make_request gave r: the exception that _make_request raised, the
\* IndexError of `response.choices[0]` / `response.content[0]` on a response
\* without choices, or no exception
TryBody(r) ==
    IF r.out.kind = "raise" THEN r.out
    ELSE IF ~r.out.wellformed THEN Raise("IndexError", IndexErrorMsg)
    ELSE NoRaise

\* (mutant) `except APIError`: only the errors of the provider SDK are caught
CaughtOnlySDKErrors(exc) == exc = "native"

\* `except Exception as e` of the generate_* methods: the classes it catches
CaughtByAdapter(exc) ==
    exc \in {"native", "APIClientError", "CircuitBreakerError", "TypeError",
             "IndexError"}

\* how a generate_* method ends: e is what its try body ended with, ok the
\* APIResponse built when there was no exception.  raised is the class of an
\* exception that leaves the method, handled the message given to _handle_error.
Ending(e, ok, provider, r) ==
    IF e.kind = "none"
    THEN [resp |-> ok, raised |-> None, handled |-> <<>>,
          b |-> r.b, used |-> r.used, net |-> r.net]
    ELSE IF CaughtByAdapter(e.exc)
    THEN [resp |-> HandleError(e.msg, provider), raised |-> None, handled |-> e.msg,
          b |-> r.b, used |-> r.used, net |-> r.net]
    ELSE [resp |-> NoResult, raised |-> e.exc, handled |-> <<>>,
          b |-> r.b, used |-> r.used, net |-> r.net]

\* OpenAIClient.generate_completion / generate_chat_completion
OpenAIGenerate(self, opkind, native, elapsed, trip) ==
    LET r == OpenAIMakeRequest(self, native, elapsed, trip)
        e == TryBody(r)
        ok == IF e.kind = "none"
              THEN APIResponse(TRUE,
                               IF opkind = "completion"
                               THEN Strip(r.out.text) ELSE r.out.text,
                               NoError, "openai", r.out.model, TotalTokens(r.out))
              ELSE NoResult
    IN  Ending(e, ok, "openai", r)

\* AnthropicClient.generate_chat_completion (generate_completion delegates to it)
AnthropicGenerate(self, opkind, native, elapsed, trip) ==
    LET r == AnthropicMakeRequest(self, native, elapsed, trip)
        e == TryBody(r)
        ok == IF e.kind = "none"
              THEN APIResponse(TRUE, r.out.text, NoError, "anthropic", r.out.model,
                               r.out.input_tokens + r.out.output_tokens)
              ELSE NoResult
    IN  Ending(e, ok, "anthropic", r)

\* client.generate_completion(...) / client.generate_chat_completion(...)
\* dispatched on the class of the handle
AdapterCall(self, opkind, native, elapsed, trip) ==
    IF self.provider = OPENAI
    THEN OpenAIGenerate(self, opkind, native, elapsed, trip)
    ELSE AnthropicGenerate(self, opkind, native, elapsed, trip)

\* the breaker objects after adapter call r on handle self
CbAfter(self, r) ==
    IF ~r.used THEN cb
    ELSE [cb EXCEPT ![<<self.provider, self.circuit_breaker>>] = r.b]

(* ------------------------------ registry ------------------------------ *)
\* client_key = f"{provider}_{hash(api_key)}"
ClientKey(provider, api_key) == <<provider, PyHash(api_key)>>

\* kwargs.get(name): None when the caller did not pass the keyword
KwGet(kw, name) == IF name \in DOMAIN kw THEN kw[name] ELSE None

\* os.getenv('<PROVIDER>_API_BASE_URL'): the variable is unset in the runs
EnvBaseUrl(provider) == None

\* os.getenv('<PROVIDER>_MODEL', default): the variable is unset in the runs,
\* so the call gives its default
EnvModel(provider) ==
    IF provider = OPENAI THEN "gpt-4" ELSE "claude-3-sonnet-20240229"

\* `base_url = base_url or "https://api.openai.com/v1"` (or the Anthropic URL)
DefaultBaseUrl(provider) ==
    IF provider = OPENAI THEN "https://api.openai.com/v1"
    ELSE "https://api.anthropic.com"

\* OpenAIClient.__init__ / AnthropicClient.__init__ as get_client calls them:
\* the adapter object built for api_key with the base URL and model of this
\* call, holding the provider's breaker global as it is now
NewHandle(provider, api_key, kw) ==
    [provider |-> provider, api_key |-> api_key,
     circuit_breaker |-> breakers[provider],
     base_url |-> PyOr(PyOr(KwGet(kw, "base_url"), EnvBaseUrl(provider)),
                       DefaultBaseUrl(provider)),
     model |-> PyOr(KwGet(kw, "model"), EnvModel(provider))]

\* (mutant) the environment variable is consulted before the argument
ResolveKeyEnvFirst(provider, kw) == PyOr(env[provider], kw.api_key)

\* kwargs.get('api_key') or os.getenv('<PROVIDER>_API_KEY')
ResolveKey(provider, kw) == PyOr(kw.api_key, env[provider])

\* (mutant) the registry is never consulted
CachedNever(client_key) == FALSE

\* `client_key in cls._clients`
Cached(client_key) == client_key \in DOMAIN clients

\* (mutant) a copy of the map is cleared, the registry keeps its handles
NotCleared(registry) == registry

\* `cls._clients.clear()`: the map afterwards
Cleared(registry) == <<>>

\* APIClientFactory.get_client(provider, **kwargs): the outcome (a handle or a
\* raised APIClientError) with the registry and the objects afterwards
GetClient(provider, kw) ==
    LET api_key == ResolveKey(provider, kw) IN
    IF ~Truthy(api_key)
    THEN [kind |-> "raise", exc |-> "APIClientError",
          msg |-> <<provider, "API key not provided">>,
          api_key |-> api_key, handle |-> 0,
          clients |-> clients, handles |-> handles]
    ELSE LET client_key == ClientKey(provider, api_key) IN
         IF ~Cached(client_key)
         THEN LET h == Len(handles) + 1 IN
              [kind |-> "handle", exc |-> None, msg |-> <<>>,
               api_key |-> api_key, handle |-> h,
               clients |-> [k \in DOMAIN clients \cup {client_key} |->
                              IF k = client_key THEN h ELSE clients[k]],
               handles |-> Append(handles, NewHandle(provider, api_key, kw))]
         ELSE [kind |-> "handle", exc |-> None, msg |-> <<>>,
               api_key |-> api_key, handle |-> clients[client_key],
               clients |-> clients, handles |-> handles]

\* the call constructs at most one adapter object; MaxHandles bounds the run
WithinHandles(g) == Len(g.handles) <= MaxHandles

\* the handles handed out since the last clear, after outcome g for (provider, kw)
ReturnedAfter(provider, g) ==
    IF g.kind = "handle"
    THEN returned \cup {<<provider, g.api_key, g.handle>>}
    ELSE returned

(* ------------------------------- state -------------------------------- *)
NoGet == [kind |-> "none", provider |-> None, arg |-> None, api_key |-> None,
          handle |-> 0, base_url |-> None, model |-> None]

NoKwargs == [api_key |-> None]

NoCall == [kind |-> "none", provider |-> None, opkind |-> None,
           breaker |-> "none", native |-> Raise("none", <<>>), net |-> FALSE,
           raised |-> None, handled |-> <<>>, resp |-> NoResult]

\* an adapter object that clear_clients dropped: only its identity remains
Dropped == [provider |-> None, api_key |-> None, circuit_breaker |-> 0,
            base_url |-> None, model |-> None]

\* the callers
Threads == 1 .. MaxThreads

\* a caller that is not in a call
IdleThread ==
    [pc |-> "idle", provider |-> None, api_key |-> None, op |-> None, pos |-> 0,
     tmp |-> 0, handle |-> 0, success |-> FALSE, exc |-> None]

\* no get_stats call since the client was made or the last request was started
NoStats ==
    [calls |-> 0, primary_provider |-> None, fallback_providers |-> <<>>,
     request_count |-> 0,
     circuit_breaker_states |-> [p \in APIProvider |-> "unknown"]]

\* sequences over S of length at most n
SeqsUpTo(S, n) == UNION {[1 .. k -> S] : k \in 0 .. n}

\* `redis_client = None` (extensions.py): no client object yet
NoClient == [kind |-> "none", id |-> 0]

\* `cache_manager = None` (database.py): no CacheManager yet
NoManager == [made |-> FALSE, redis_client |-> NoClient]

\* no CacheManager operation has been called directly yet
NoCacheOp == [op |-> None, raised |-> None, value |-> None, ok |-> FALSE, count |-> 0]

\* no ai_chat request is being served
NoChat == [phase |-> "idle", message |-> None, held |-> <<>>, status |-> 0,
           response |-> None, cached |-> FALSE, orchestrated |-> FALSE,
           error |-> None]

\* run_all_checks has not been called yet
NoHealth == [status |-> None, checks |-> <<>>, code |-> 0, given |-> <<>>]

\* no request has been logged yet
NoLog == [written |-> FALSE, json_data |-> {}, request |-> {}]

Init ==
    /\ env \in [APIProvider -> EnvValues]
    /\ breakers = [p \in APIProvider |-> 0]
    /\ cb = <<>>
    /\ clients = <<>>
    /\ handles = <<>>
    /\ primary_provider = OPENAI
    /\ fallback_providers = <<>>
    /\ request_count = 0
    /\ pc = "idle"
    /\ pos = 0
    /\ op = None
    /\ kwargs = NoKwargs
    /\ trace = <<>>
    /\ result = NoResult
    /\ entry_count = 0
    /\ lastCall = NoCall
    /\ lastGet = NoGet
    /\ returned = {}
    /\ retired = {}
    /\ succeeded = 0
    /\ th = [t \in Threads |-> IdleThread]
    /\ stats = NoStats
    /\ redis_client = NoClient
    /\ cache_manager = NoManager
    /\ store = [slot \in 0 .. MaxApps |-> <<>>]
    /\ lastCache = NoCacheOp
    /\ chat = NoChat
    /\ checks = <<>>
    /\ health = NoHealth
    /\ query_stats = <<>>
    /\ logged = NoLog

(* ----------------------------- extensions ----------------------------- *)
\* init_circuit_breakers(app): new breaker objects replace the globals
init_circuit_breakers ==
    /\ pc = "idle"
    /\ breakers[OPENAI] < MaxInits
    /\ LET id == breakers[OPENAI] + 1 IN
       /\ breakers' = [p \in APIProvider |-> id]
       /\ cb' = [k \in DOMAIN cb \cup {<<p, id>> : p \in APIProvider} |->
                   IF k \in DOMAIN cb THEN cb[k] ELSE NewBreaker]
    /\ UNCHANGED <<procVars, clients, handles, planVars, request_count, callVars,
                   lastCall, lastGet, returned, retired,
                   succeeded, threadVars, stats>>
    /\ UNCHANGED appVars

(* ------------------------------ factory ------------------------------- *)
\* APIClientFactory.get_client called by application code
get_client(provider, api_key) ==
    /\ pc = "idle"
    /\ LET g == GetClient(provider, [api_key |-> api_key]) IN
       /\ WithinHandles(g)
       /\ clients' = g.clients
       /\ handles' = g.handles
       /\ returned' = ReturnedAfter(provider, g)
       /\ lastGet' = [kind |-> g.kind, provider |-> provider, arg |-> api_key,
                      api_key |-> g.api_key, handle |-> g.handle,
                      base_url |-> None, model |-> None]
    /\ UNCHANGED <<procVars, breakers, cb, planVars, request_count, callVars,
                   lastCall, retired,
                   succeeded, threadVars, stats>>
    /\ UNCHANGED appVars

\* APIClientFactory.get_client called with its base_url and model keywords
get_client_with(provider, api_key, base_url, model) ==
    /\ pc = "idle"
    /\ LET g == GetClient(provider, [api_key |-> api_key, base_url |-> base_url,
                                     model |-> model]) IN
       /\ WithinHandles(g)
       /\ clients' = g.clients
       /\ handles' = g.handles
       /\ returned' = ReturnedAfter(provider, g)
       /\ lastGet' = [kind |-> g.kind, provider |-> provider, arg |-> api_key,
                      api_key |-> g.api_key, handle |-> g.handle,
                      base_url |-> base_url, model |-> model]
    /\ UNCHANGED <<procVars, breakers, cb, planVars, request_count, callVars,
                   lastCall, retired,
                   succeeded, threadVars, stats>>
    /\ UNCHANGED appVars

\* APIClientFactory.clear_clients
clear_clients ==
    /\ pc = "idle"
    /\ clients' = Cleared(clients)
    /\ handles' = [h \in 1 .. Len(handles) |-> Dropped]
    /\ retired' = retired \cup returned
    /\ returned' = {}
    /\ lastGet' = NoGet
    /\ UNCHANGED <<procVars, breakers, cb, planVars, request_count, callVars,
                   lastCall,
                   succeeded, threadVars, stats>>
    /\ UNCHANGED appVars

(* ------------------------ adapters used directly ---------------------- *)
\* state of the breaker that handle self holds
BreakerOf(self) ==
    IF self.circuit_breaker = 0 THEN "none"
    ELSE cb[<<self.provider, self.circuit_breaker>>].state

\* the breaker as a call on handle self finds it: an open breaker whose
\* reset_timeout has elapsed is half-open for that call
BreakerSeen(self, elapsed) ==
    IF BreakerOf(self) = "open" /\ elapsed THEN "half-open" ELSE BreakerOf(self)

\* get_openai_client(**kwargs) / get_anthropic_client(**kwargs) followed by
\* generate_completion / generate_chat_completion on the handle
adapter_call(provider, api_key, opkind, native, elapsed, trip) ==
    /\ pc = "idle"
    /\ LET g == GetClient(provider, [api_key |-> api_key]) IN
       /\ g.kind = "handle"
       /\ WithinHandles(g)
       /\ clients' = g.clients
       /\ handles' = g.handles
       /\ returned' = ReturnedAfter(provider, g)
       /\ LET self == g.handles[g.handle]
              r == AdapterCall(self, opkind, native, elapsed, trip)
          IN  /\ cb' = CbAfter(self, r)
              /\ lastCall' = [kind |-> "call", provider |-> provider,
                              opkind |-> opkind,
                              breaker |-> BreakerSeen(self, elapsed),
                              native |-> native, net |-> r.net,
                              raised |-> r.raised, handled |-> r.handled,
                              resp |-> r.resp]
    /\ UNCHANGED <<procVars, breakers, planVars, request_count, callVars,
                   lastGet, retired,
                   succeeded, threadVars, stats>>
    /\ UNCHANGED appVars

(* ---------------------------- orchestrator ---------------------------- *)
\* (mutant) the fallbacks come before the primary provider
ProvidersFallbacksFirst == fallback_providers \o <<primary_provider>>

\* providers = [self.primary_provider] + self.fallback_providers
Providers == <<primary_provider>> \o fallback_providers

\* get_unified_client(primary, fallbacks): a new UnifiedAPIClient
get_unified_client(primary, fallbacks) ==
    /\ pc = "idle"
    /\ primary_provider' = primary
    /\ fallback_providers' = fallbacks
    /\ request_count' = 0
    /\ succeeded' = 0
    /\ stats' = NoStats
    /\ UNCHANGED <<procVars, breakers, cb, clients, handles, callVars, lastCall,
                   lastGet, returned, retired, threadVars>>
    /\ UNCHANGED appVars

\* client keys the plan would have to construct a handle for
MissingKeys(kw) ==
    {ClientKey(Providers[i], ResolveKey(Providers[i], kw)) :
        i \in {j \in 1 .. Len(Providers) : Truthy(ResolveKey(Providers[j], kw))}}
    \ DOMAIN clients

\* UnifiedAPIClient.generate_completion / generate_chat_completion is entered
generate_start(opkind, api_key) ==
    /\ pc = "idle"
    /\ request_count < MaxRequests
    /\ LET kw == [api_key |-> api_key] IN
       /\ Len(handles) + Cardinality(MissingKeys(kw)) <= MaxHandles
       /\ kwargs' = kw
    /\ op' = opkind
    /\ pc' = "loop"
    /\ pos' = 1
    /\ trace' = <<>>
    /\ result' = NoResult
    /\ entry_count' = request_count
    /\ stats' = NoStats
    /\ UNCHANGED <<procVars, breakers, cb, clients, handles, planVars,
                   request_count, lastCall, lastGet, returned, retired,
                   succeeded, threadVars>>
    /\ UNCHANGED appVars

\* what one pass of the for loop did: outcome is lookup_raised (get_client
\* raised), call_raised (the adapter call raised), failed or success (the
\* adapter returned resp); open tells whether the pass found the breaker of
\* the handle open, net whether the provider was called over the network
Attempt(provider, outcome, open, net, resp) ==
    [provider |-> provider, outcome |-> outcome, open |-> open, net |-> net,
     resp |-> resp]

\* (mutant) `except APIClientError`: other errors leave the loop
CaughtOnlyClientErrors(exc) == exc = "APIClientError"

\* (mutant) APIClientError is let through to the caller
CaughtNoClientErrors(exc) == exc # "APIClientError"

\* `except Exception as e` of the loop: the classes of error it catches
\* (every class derived from Exception)
CaughtByLoop(exc) == exc \in {"APIClientError", "TypeError"}

\* (mutant) `break`: the loop is left at the first error
Break(p) == Len(Providers) + 1

\* `continue`: the loop goes to the next provider
Continue(p) == p + 1

\* (mutant) a successful response does not end the loop
ReturnsNever(resp) == FALSE

\* `if response.success:` the pass returns the response
ReturnsNow(resp) == resp.success

\* (mutant) the counter is left as it is
CountKept(count) == count

\* `self.request_count += 1` of a returning pass
CountAfter(count) == count + 1

\* an error of class exc raised in pass `pos` for `provider`: the loop
\* catches it and goes on, or it leaves the call
raised_in_pass(provider, outcome, exc) ==
    /\ trace' = Append(trace, Attempt(provider, outcome, FALSE, FALSE, NoResult))
    /\ IF CaughtByLoop(exc)
       THEN pos' = Continue(pos) /\ pc' = pc
       ELSE pos' = pos /\ pc' = "raised"
    /\ UNCHANGED <<request_count, succeeded, result>>

\* one pass of `for provider in providers`: get_client, the adapter call, and
\* either the return of a success or the step to the next provider.
\* raises: the class of an error that the call expression itself raises before
\* the adapter's try is entered (a keyword of kwargs that repeats a parameter of
\* the method), or None.
attempt(native, elapsed, trip, raises) ==
    /\ pc = "loop"
    /\ pos <= Len(Providers)
    /\ LET provider == Providers[pos]
           g == GetClient(provider, kwargs)
       IN
       IF g.kind = "raise"
       THEN /\ raised_in_pass(provider, "lookup_raised", g.exc)
            /\ UNCHANGED <<cb, clients, handles, returned>>
       ELSE /\ clients' = g.clients
            /\ handles' = g.handles
            /\ returned' = ReturnedAfter(provider, g)
            /\ IF raises # None
               THEN raised_in_pass(provider, "call_raised", raises) /\ UNCHANGED cb
               ELSE LET self == g.handles[g.handle]
                        r == AdapterCall(self, op, native, elapsed, trip)
                        outcome == IF r.resp.success THEN "success" ELSE "failed"
                    IN
                    IF r.raised # None
                    THEN /\ raised_in_pass(provider, "call_raised", r.raised)
                         /\ cb' = CbAfter(self, r)
                    ELSE
                        /\ cb' = CbAfter(self, r)
                        /\ trace' = Append(trace,
                              Attempt(provider, outcome,
                                      BreakerSeen(self, elapsed) = "open",
                                      r.net, r.resp))
                        /\ IF ReturnsNow(r.resp)
                           THEN /\ request_count' = CountAfter(request_count)
                                /\ succeeded' = succeeded + 1
                                /\ result' = r.resp
                                /\ pc' = "done"
                                /\ pos' = pos
                           ELSE /\ pos' = Continue(pos)
                                /\ UNCHANGED <<request_count, succeeded, pc, result>>
    /\ UNCHANGED <<procVars, breakers, planVars, op, kwargs, entry_count,
                   lastCall, lastGet, retired, threadVars, stats>>
    /\ UNCHANGED appVars

\* (mutant) the aggregate failure names no provider at all
AllFailedUnlabelled ==
    APIResponse(FALSE, None, <<"All AI providers failed">>, None, None, NoTokens)

\* the aggregate failure
AllFailed == APIResponse(FALSE, None, <<"All AI providers failed">>, "unified",
                         None, NoTokens)

\* the loop ends with no success
exhausted ==
    /\ pc = "loop"
    /\ pos > Len(Providers)
    /\ result' = AllFailed
    /\ pc' = "done"
    /\ UNCHANGED <<procVars, breakers, cb, clients, handles, planVars,
                   request_count, pos, op, kwargs, trace, entry_count, lastCall,
                   lastGet, returned, retired, succeeded, threadVars, stats>>
    /\ UNCHANGED appVars

\* the caller takes the APIResponse
return ==
    /\ pc = "done"
    /\ pc' = "idle"
    /\ pos' = 0
    /\ op' = None
    /\ kwargs' = NoKwargs
    /\ trace' = <<>>
    /\ result' = NoResult
    /\ entry_count' = 0
    /\ UNCHANGED <<procVars, breakers, cb, clients, handles, planVars,
                   request_count, lastCall, lastGet, returned, retired,
                   succeeded, threadVars, stats>>
    /\ UNCHANGED appVars

(* ------------------------------ statistics ---------------------------- *)
\* the dictionary that get_stats builds; calls counts the get_stats calls
\* made since the last request was started (1, or 2 for two and more)
GetStats ==
    [calls |-> IF stats.calls = 0 THEN 1 ELSE 2,
     primary_provider |-> primary_provider,
     fallback_providers |-> fallback_providers,
     request_count |-> request_count,
     circuit_breaker_states |->
        [p \in APIProvider |->
            IF breakers[p] # 0 THEN cb[<<p, breakers[p]>>].state ELSE "unknown"]]

\* (mutant) get_stats counts itself as a request
get_stats_counted ==
    /\ pc = "idle"
    /\ request_count < MaxRequests
    /\ stats' = GetStats
    /\ request_count' = request_count + 1
    /\ UNCHANGED <<procVars, breakers, cb, clients, handles, planVars, callVars,
                   lastCall, lastGet, returned, retired, succeeded, threadVars>>
    /\ UNCHANGED appVars

\* UnifiedAPIClient.get_stats
get_stats ==
    /\ pc = "idle"
    /\ stats' = GetStats
    /\ UNCHANGED <<procVars, breakers, cb, clients, handles, planVars,
                   request_count, callVars, lastCall, lastGet, returned, retired,
                   succeeded, threadVars>>
    /\ UNCHANGED appVars

(* ------------------------- callers at the same time -------------------- *)
\* thread t of th with its fields set
Thread(t, r) == [th EXCEPT ![t] = r]

\* get_client, line by line.  g_enter: the key is resolved and
\* `client_key not in cls._clients` is evaluated.
g_enter(t, provider, api_key) ==
    /\ th[t].pc = "idle"
    /\ LET key == ResolveKey(provider, [api_key |-> api_key]) IN
       th' = Thread(t, [IdleThread EXCEPT
                 !.pc = IF ~Truthy(key) THEN "raised"
                        ELSE IF Cached(ClientKey(provider, key))
                        THEN "fetch" ELSE "construct",
                 !.exc = IF ~Truthy(key) THEN "APIClientError" ELSE None,
                 !.provider = provider, !.api_key = key])
    /\ UNCHANGED <<procVars, breakers, cb, clients, handles, planVars,
                   request_count, callVars, lastCall, lastGet, returned, retired,
                   succeeded, stats>>
    /\ UNCHANGED appVars

\* g_construct: `cls._clients[client_key] = OpenAIClient(...)` (or
\* AnthropicClient): the adapter is constructed and stored under the key
g_construct(t) ==
    /\ th[t].pc = "construct"
    /\ Len(handles) < MaxHandles
    /\ LET client_key == ClientKey(th[t].provider, th[t].api_key)
           h == Len(handles) + 1
       IN  /\ handles' = Append(handles, NewHandle(th[t].provider, th[t].api_key,
                                                  [api_key |-> th[t].api_key]))
           /\ clients' = [k \in DOMAIN clients \cup {client_key} |->
                            IF k = client_key THEN h ELSE clients[k]]
    /\ th' = Thread(t, [th[t] EXCEPT !.pc = "fetch"])
    /\ UNCHANGED <<procVars, breakers, cb, planVars, request_count, callVars,
                   lastCall, lastGet, returned, retired, succeeded, stats>>
    /\ UNCHANGED appVars

\* g_fetch: `return cls._clients[client_key]`, a subscript that raises
\* KeyError when the key is no longer in the map
g_fetch(t) ==
    /\ th[t].pc = "fetch"
    /\ LET client_key == ClientKey(th[t].provider, th[t].api_key) IN
       th' = Thread(t, IF Cached(client_key)
                       THEN [th[t] EXCEPT !.pc = "returned",
                                          !.handle = clients[client_key]]
                       ELSE [th[t] EXCEPT !.pc = "raised", !.exc = "KeyError"])
    /\ UNCHANGED <<procVars, breakers, cb, clients, handles, planVars,
                   request_count, callVars, lastCall, lastGet, returned, retired,
                   succeeded, stats>>
    /\ UNCHANGED appVars

\* the caller goes on with the handle or the error it got
g_leave(t) ==
    /\ th[t].pc \in {"returned", "raised"}
    /\ th' = Thread(t, IdleThread)
    /\ UNCHANGED <<procVars, breakers, cb, clients, handles, planVars,
                   request_count, callVars, lastCall, lastGet, returned, retired,
                   succeeded, stats>>
    /\ UNCHANGED appVars

\* a UnifiedAPIClient is made and shared by the callers
u_new_client(primary, fallbacks) ==
    /\ \A t \in Threads : th[t].pc \in {"idle", "returned"}
    /\ primary_provider' = primary
    /\ fallback_providers' = fallbacks
    /\ request_count' = 0
    /\ succeeded' = 0
    /\ stats' = NoStats
    /\ th' = [t \in Threads |-> IdleThread]
    /\ UNCHANGED <<procVars, breakers, cb, clients, handles, callVars, lastCall,
                   lastGet, returned, retired>>
    /\ UNCHANGED appVars

\* caller t enters generate_completion / generate_chat_completion of the
\* shared client
u_start(t, opkind, api_key) ==
    /\ th[t].pc = "idle"
    /\ Len(handles) + Cardinality(MissingKeys([api_key |-> api_key])) <= MaxHandles
    /\ th' = Thread(t, [IdleThread EXCEPT
                 !.pc = "loop", !.op = opkind, !.api_key = api_key, !.pos = 1])
    /\ UNCHANGED <<procVars, breakers, cb, clients, handles, planVars,
                   request_count, callVars, lastCall, lastGet, returned, retired,
                   succeeded, stats>>
    /\ UNCHANGED appVars

\* one pass of the loop of caller t, up to `if response.success:`
u_pass(t, native, elapsed, trip) ==
    /\ th[t].pc = "loop"
    /\ th[t].pos <= Len(Providers)
    /\ LET provider == Providers[th[t].pos]
           g == GetClient(provider, [api_key |-> th[t].api_key])
       IN
       IF g.kind = "raise"
       THEN /\ th' = Thread(t, [th[t] EXCEPT !.pos = Continue(th[t].pos)])
            /\ UNCHANGED <<cb, clients, handles, returned>>
       ELSE /\ clients' = g.clients
            /\ handles' = g.handles
            /\ returned' = ReturnedAfter(provider, g)
            /\ LET self == g.handles[g.handle]
                   r == AdapterCall(self, th[t].op, native, elapsed, trip)
               IN  /\ cb' = CbAfter(self, r)
                   /\ IF r.raised = None /\ ReturnsNow(r.resp)
                      THEN th' = Thread(t, [th[t] EXCEPT !.pc = "load"])
                      ELSE th' = Thread(t, [th[t] EXCEPT !.pos = Continue(th[t].pos)])
    /\ UNCHANGED <<procVars, breakers, planVars, request_count, callVars,
                   lastCall, lastGet, retired, succeeded, stats>>
    /\ UNCHANGED appVars

\* `self.request_count += 1`, first half: the attribute is read
u_load(t) ==
    /\ th[t].pc = "load"
    /\ th' = Thread(t, [th[t] EXCEPT !.pc = "store", !.tmp = request_count])
    /\ UNCHANGED <<procVars, breakers, cb, clients, handles, planVars,
                   request_count, callVars, lastCall, lastGet, returned, retired,
                   succeeded, stats>>
    /\ UNCHANGED appVars

\* `self.request_count += 1`, second half: the sum is stored, and
\* `return response`
u_store(t) ==
    /\ th[t].pc = "store"
    /\ request_count' = CountAfter(th[t].tmp)
    /\ succeeded' = succeeded + 1
    /\ th' = Thread(t, [th[t] EXCEPT !.pc = "returned", !.success = TRUE])
    /\ UNCHANGED <<procVars, breakers, cb, clients, handles, planVars, callVars,
                   lastCall, lastGet, returned, retired, stats>>
    /\ UNCHANGED appVars

\* the loop of caller t ends with no success: the aggregate failure
u_exhausted(t) ==
    /\ th[t].pc = "loop"
    /\ th[t].pos > Len(Providers)
    /\ th' = Thread(t, [th[t] EXCEPT !.pc = "returned", !.success = AllFailed.success])
    /\ UNCHANGED <<procVars, breakers, cb, clients, handles, planVars,
                   request_count, callVars, lastCall, lastGet, returned, retired,
                   succeeded, stats>>
    /\ UNCHANGED appVars

(* ------------------------- Redis client and cache ---------------------- *)
\* keys that callers of the CacheManager use: a name space and a name
CacheKeys == {<<"chat:", 11>>, <<"chat:", 22>>, <<"user:", 1>>}

\* patterns given to invalidate_pattern
CachePatterns == {<<"chat:", "*">>, <<"user:", "*">>}

\* values that callers cache
CacheValues == {"hello", Empty}

\* CacheManager._make_key: f"{self.key_prefix}{key}"
MakeKey(key) == <<"biped:">> \o key

\* the prefixed key matches the prefixed glob pattern `<name space>*`
Matches(cache_key, cache_pattern) ==
    /\ cache_key[1] = cache_pattern[1]
    /\ cache_key[2] = cache_pattern[2]
    /\ cache_pattern[3] = "*"

\* json.dumps(value, default=str): the text stored for value
JsonDumps(value) == <<"json", value>>

\* a stored text that is not JSON (another writer of the same server)
NotJson == <<"raw", "x">>

\* no stored text: MockRedisClient.get and redis give None
NoValue == <<>>

\* json.loads(text): the value, or JSONDecodeError
JsonLoads(text) ==
    IF text[1] = "json"
    THEN [raised |-> None, value |-> text[2]]
    ELSE [raised |-> "JSONDecodeError", value |-> None]

\* where the data of client object c lives: the _data of a MockRedisClient
\* (one per object), or the Redis server (slot 0, shared by all connections)
Slot(c) == IF c.kind = "redis" THEN 0 ELSE c.id

\* the stored text for cache_key in data, or NoValue
Lookup(data, cache_key) ==
    IF cache_key \in DOMAIN data THEN data[cache_key] ELSE NoValue

\* data with text stored under cache_key
Stored(data, cache_key, text) ==
    [k \in DOMAIN data \cup {cache_key} |-> IF k = cache_key THEN text ELSE data[k]]

\* data without the keys in ks
Removed(data, ks) == [k \in DOMAIN data \ ks |-> data[k]]

\* self.redis_client.get(cache_key) on client c.  None has no attribute `get`
\* (AttributeError); a redis connection raises a RedisError (ConnectionError,
\* TimeoutError) when the server does not answer (fails).
RedisGet(c, cache_key, fails) ==
    IF c.kind = "none" THEN [raised |-> "AttributeError", text |-> NoValue]
    ELSE IF c.kind = "redis" /\ fails THEN [raised |-> "RedisError", text |-> NoValue]
    ELSE [raised |-> None, text |-> Lookup(store[Slot(c)], cache_key)]

\* self.redis_client.set(cache_key, text, ex=ttl) on client c
RedisSet(c, cache_key, text, fails) ==
    IF c.kind = "none"
    THEN [raised |-> "AttributeError", ok |-> FALSE, store |-> store]
    ELSE IF c.kind = "redis" /\ fails
    THEN [raised |-> "RedisError", ok |-> FALSE, store |-> store]
    ELSE [raised |-> None, ok |-> TRUE,
          store |-> [store EXCEPT ![Slot(c)] = Stored(@, cache_key, text)]]

\* self.redis_client.delete(*keys) on client c: the number of keys removed.
\* MockRedisClient.delete takes one key.
RedisDelete(c, ks, fails) ==
    IF c.kind = "none"
    THEN [raised |-> "AttributeError", count |-> 0, store |-> store]
    ELSE IF c.kind = "redis" /\ fails
    THEN [raised |-> "RedisError", count |-> 0, store |-> store]
    ELSE IF c.kind = "mock" /\ Cardinality(ks) # 1
    THEN [raised |-> "TypeError", count |-> 0, store |-> store]
    ELSE [raised |-> None,
          count |-> Cardinality(ks \cap DOMAIN store[Slot(c)]),
          store |-> [store EXCEPT ![Slot(c)] = Removed(@, ks)]]

\* self.redis_client.keys(cache_pattern) on client c.  MockRedisClient has no
\* `keys` method.
RedisKeys(c, cache_pattern, fails) ==
    IF c.kind \in {"none", "mock"} THEN [raised |-> "AttributeError", keys |-> {}]
    ELSE IF fails THEN [raised |-> "RedisError", keys |-> {}]
    ELSE [raised |-> None,
          keys |-> {k \in DOMAIN store[0] : Matches(k, cache_pattern)}]

\* `except (redis.RedisError, json.JSONDecodeError)` of CacheManager.get
CaughtByGet(exc) == exc \in {"RedisError", "JSONDecodeError"}

\* `except (redis.RedisError, TypeError)` of CacheManager.set
CaughtBySet(exc) == exc \in {"RedisError", "TypeError"}

\* `except redis.RedisError` of CacheManager.delete and invalidate_pattern
CaughtByDelete(exc) == exc = "RedisError"

\* CacheManager.get(key) of manager m: the value returned (None for absent)
\* or the class of the error that leaves the method
CacheGet(m, key, fails) ==
    LET r == RedisGet(m.redis_client, MakeKey(key), fails)
        j == JsonLoads(r.text)
        exc == IF r.raised # None THEN r.raised
               ELSE IF r.text = NoValue THEN None
               ELSE j.raised
    IN  IF exc # None
        THEN [raised |-> IF CaughtByGet(exc) THEN None ELSE exc, value |-> None]
        ELSE IF r.text = NoValue THEN [raised |-> None, value |-> None]
        ELSE [raised |-> None, value |-> j.value]

\* CacheManager.set(key, value, ttl)
CacheSet(m, key, value, fails) ==
    LET r == RedisSet(m.redis_client, MakeKey(key), JsonDumps(value), fails) IN
    IF r.raised # None
    THEN [raised |-> IF CaughtBySet(r.raised) THEN None ELSE r.raised,
          ok |-> FALSE, store |-> store]
    ELSE r

\* CacheManager.delete(key)
CacheDelete(m, key, fails) ==
    LET r == RedisDelete(m.redis_client, {MakeKey(key)}, fails) IN
    IF r.raised # None
    THEN [raised |-> IF CaughtByDelete(r.raised) THEN None ELSE r.raised,
          ok |-> FALSE, count |-> 0, store |-> store]
    ELSE [raised |-> None, ok |-> r.count > 0, count |-> r.count, store |-> r.store]

\* CacheManager.invalidate_pattern(pattern)
CacheInvalidate(m, pattern, fails) ==
    LET ks == RedisKeys(m.redis_client, MakeKey(pattern), fails)
        r == RedisDelete(m.redis_client, ks.keys, fails)
        exc == IF ks.raised # None THEN ks.raised
               ELSE IF ks.keys = {} THEN None
               ELSE r.raised
    IN  IF exc # None
        THEN [raised |-> IF CaughtByDelete(exc) THEN None ELSE exc,
              count |-> 0, store |-> store]
        ELSE IF ks.keys = {} THEN [raised |-> None, count |-> 0, store |-> store]
        ELSE [raised |-> None, count |-> r.count, store |-> r.store]

\* create_app(): init_database(app) builds the CacheManager on the value that
\* extensions.redis_client has at that moment; init_extensions(app) then runs
\* init_redis (a connection when the server answers the ping, else a new
\* MockRedisClient) and init_circuit_breakers (new breaker objects).
create_app(redis_up) ==
    /\ pc = "idle"
    /\ chat.phase # "orchestrating"
    /\ redis_client.id < MaxApps
    /\ cache_manager' = [made |-> TRUE, redis_client |-> redis_client]
    /\ redis_client' = [kind |-> IF redis_up THEN "redis" ELSE "mock",
                        id |-> redis_client.id + 1]
    /\ LET id == breakers[OPENAI] + 1 IN
       /\ breakers' = [p \in APIProvider |-> id]
       /\ cb' = [k \in DOMAIN cb \cup {<<p, id>> : p \in APIProvider} |->
                   IF k \in DOMAIN cb THEN cb[k] ELSE NewBreaker]
    /\ UNCHANGED <<procVars, clients, handles, planVars, request_count, callVars,
                   lastCall, lastGet, returned, retired, succeeded, threadVars,
                   stats>>
    /\ UNCHANGED <<store, lastCache, chat, checks, health, query_stats, logged>>

\* the frame of an operation on the cache called by application code
CacheFrame ==
    /\ UNCHANGED <<procVars, breakers, cb, clients, handles, planVars,
                   request_count, callVars, lastCall, lastGet, returned, retired,
                   succeeded, threadVars, stats>>
    /\ UNCHANGED <<redis_client, cache_manager, chat, checks, health,
                   query_stats, logged>>

\* get_cache_manager().get(key) called by application code
cache_get(key, fails) ==
    /\ cache_manager.made
    /\ chat.phase # "orchestrating"
    /\ LET r == CacheGet(cache_manager, key, fails) IN
       lastCache' = [op |-> "get", raised |-> r.raised, value |-> r.value,
                     ok |-> FALSE, count |-> 0]
    /\ UNCHANGED store
    /\ CacheFrame

\* get_cache_manager().set(key, value)
cache_set(key, value, fails) ==
    /\ cache_manager.made
    /\ chat.phase # "orchestrating"
    /\ LET r == CacheSet(cache_manager, key, value, fails) IN
       /\ lastCache' = [op |-> "set", raised |-> r.raised, value |-> None,
                        ok |-> r.ok, count |-> 0]
       /\ store' = r.store
    /\ CacheFrame

\* get_cache_manager().delete(key)
cache_delete(key, fails) ==
    /\ cache_manager.made
    /\ chat.phase # "orchestrating"
    /\ LET r == CacheDelete(cache_manager, key, fails) IN
       /\ lastCache' = [op |-> "delete", raised |-> r.raised, value |-> None,
                        ok |-> r.ok, count |-> 0]
       /\ store' = r.store
    /\ CacheFrame

\* get_cache_manager().invalidate_pattern(pattern)
cache_invalidate(pattern, fails) ==
    /\ cache_manager.made
    /\ chat.phase # "orchestrating"
    /\ LET r == CacheInvalidate(cache_manager, pattern, fails) IN
       /\ lastCache' = [op |-> "invalidate_pattern", raised |-> r.raised,
                        value |-> None, ok |-> FALSE, count |-> r.count]
       /\ store' = r.store
    /\ CacheFrame

\* another program stores a text that is not JSON on the Redis server
foreign_write(key) ==
    /\ redis_client.kind = "redis" \/ cache_manager.redis_client.kind = "redis"
    /\ chat.phase # "orchestrating"
    /\ store' = [store EXCEPT ![0] = Stored(@, MakeKey(key), NotJson)]
    /\ UNCHANGED lastCache
    /\ CacheFrame

(* ------------------------------- ai_chat ------------------------------- *)
\* messages that requests carry
Messages == {"hi", "yo", "hey"}

\* hash(message): not injective
MsgHash(message) == IF message = "yo" THEN 22 ELSE 11

\* cache_key = f"chat:{hash(message)}"
ChatKey(message) == <<"chat:", MsgHash(message)>>

\* fallbacks=['anthropic'] if provider == 'openai' else ['openai']
ChatFallbacks(provider) == IF provider = OPENAI THEN <<ANTHROPIC>> ELSE <<OPENAI>>

\* the JSON response of ai_chat and its status code
ChatResponse(c, code, response, cached, error) ==
    [c EXCEPT !.phase = "responded", !.status = code, !.response = response,
              !.cached = cached, !.error = error]

\* `if cache_manager:` / `cached_response = cache_manager.get(cache_key)`
ChatLookup(message, fails) ==
    IF cache_manager.made
    THEN CacheGet(cache_manager, ChatKey(message), fails)
    ELSE [raised |-> None, value |-> None]

\* the text that the backing store gave for the message's key in that lookup
ChatHeld(message, fails) ==
    IF cache_manager.made
    THEN RedisGet(cache_manager.redis_client, MakeKey(ChatKey(message)), fails).text
    ELSE NoValue

\* ai_chat up to the orchestrated call: the body is checked, the
\* UnifiedAPIClient is built, the cache is consulted; a hit answers the
\* request, a miss enters client.generate_chat_completion
ai_chat_enter(message, provider, fails) ==
    /\ pc = "idle"
    /\ chat.phase # "orchestrating"
    /\ LET c == [NoChat EXCEPT !.message = message]
           g == ChatLookup(message, fails)
           h == [c EXCEPT !.held = ChatHeld(message, fails)]
       IN
       IF message = None
       THEN /\ chat' = ChatResponse(c, 400, None, FALSE, "Message is required")
            /\ UNCHANGED <<planVars, request_count, succeeded, stats, callVars>>
       ELSE /\ primary_provider' = provider
            /\ fallback_providers' = ChatFallbacks(provider)
            /\ request_count' = 0
            /\ succeeded' = 0
            /\ stats' = NoStats
            /\ IF g.raised # None
               THEN /\ chat' = ChatResponse(h, 500, None, FALSE, "Internal server error")
                    /\ UNCHANGED callVars
               ELSE IF Truthy(g.value)
               THEN /\ chat' = ChatResponse(h, 200, g.value, TRUE, None)
                    /\ UNCHANGED callVars
               ELSE /\ chat' = [h EXCEPT !.phase = "orchestrating",
                                         !.orchestrated = TRUE]
                    /\ pc' = "loop"
                    /\ pos' = 1
                    /\ op' = "chat"
                    /\ kwargs' = NoKwargs
                    /\ trace' = <<>>
                    /\ result' = NoResult
                    /\ entry_count' = 0
    /\ UNCHANGED <<procVars, breakers, cb, clients, handles, lastCall, lastGet,
                   returned, retired, threadVars>>
    /\ UNCHANGED <<redis_client, cache_manager, store, lastCache, checks, health,
                   query_stats, logged>>

\* (mutant) the response is cached whether the call succeeded or not
ShouldCacheAlways(resp) == TRUE

\* `if api_response.success:` the response is cached and returned
ShouldCache(resp) == resp.success

\* `if cache_manager: cache_manager.set(cache_key, api_response.data, ttl=3600)`
ChatStore(message, data, fails) ==
    IF cache_manager.made
    THEN CacheSet(cache_manager, ChatKey(message), data, fails)
    ELSE [raised |-> None, ok |-> FALSE, store |-> store]

\* ai_chat after the orchestrated call: a success is cached and returned, a
\* failure gives 503, an error that left the call gives 500
ai_chat_finish(fails) ==
    /\ chat.phase = "orchestrating"
    /\ pc \in {"done", "raised"}
    /\ LET w == ChatStore(chat.message, result.data, fails) IN
       IF pc = "raised"
       THEN /\ chat' = ChatResponse(chat, 500, None, FALSE, "Internal server error")
            /\ UNCHANGED store
       ELSE IF ShouldCache(result)
       THEN IF w.raised # None
            THEN /\ chat' = ChatResponse(chat, 500, None, FALSE, "Internal server error")
                 /\ UNCHANGED store
            ELSE /\ chat' = ChatResponse(chat, 200, result.data, FALSE, None)
                 /\ store' = w.store
       ELSE /\ chat' = ChatResponse(chat, 503, None, FALSE, "AI service unavailable")
            /\ UNCHANGED store
    /\ pc' = "idle"
    /\ pos' = 0
    /\ op' = None
    /\ kwargs' = NoKwargs
    /\ trace' = <<>>
    /\ result' = NoResult
    /\ entry_count' = 0
    /\ UNCHANGED <<procVars, breakers, cb, clients, handles, planVars,
                   request_count, lastCall, lastGet, returned, retired,
                   succeeded, threadVars, stats>>
    /\ UNCHANGED <<redis_client, cache_manager, lastCache, checks, health,
                   query_stats, logged>>

(* ---------------------------- health checks ---------------------------- *)
\* names under which health.py registers its checks, in the order of the
\* register_check calls
CheckOrder == <<"database", "redis", "system", "external_services">>
CheckNames == {CheckOrder[i] : i \in 1 .. Len(CheckOrder)}

\* what a check function does when it is called: it returns a dictionary with
\* 'healthy' True or False, a dictionary without that key, or it raises
CheckOutcomes ==
    [kind : {"return"}, has_healthy : {TRUE}, healthy : BOOLEAN, error : {None}]
    \cup [kind : {"return"}, has_healthy : {FALSE}, healthy : {FALSE}, error : {None}]
    \cup [kind : {"raise"}, has_healthy : {FALSE}, healthy : {FALSE},
          error : {"connection refused"}]

\* `check_result.get('healthy', False)`
GetHealthy(check_result) == check_result.has_healthy /\ check_result.healthy

\* results['checks'][name] after the check gave outcome o: the dictionary it
\* returned, or {'healthy': False, 'error': str(e)} for the error it raised
CheckEntry(o) ==
    IF o.kind = "raise"
    THEN [has_healthy |-> TRUE, healthy |-> FALSE, error |-> o.error]
    ELSE [has_healthy |-> o.has_healthy, healthy |-> o.healthy, error |-> None]

\* (mutant) the loop is left when a check raises
StopAfterRaise(i, n) == n + 1

\* the `except Exception` branch is inside the loop: the next check runs
NextAfterRaise(i, n) == i + 1

\* the passes of `for name, check_func in self.checks.items()` from the i-th
\* check on; acc holds overall_healthy and results['checks'] so far
RECURSIVE RunChecksFrom(_, _, _, _)
RunChecksFrom(registered, outcome, i, acc) ==
    IF i > Len(registered) THEN acc
    ELSE LET name == registered[i]
             o == outcome[name]
             entries == [n \in DOMAIN acc.checks \cup {name} |->
                           IF n = name THEN CheckEntry(o) ELSE acc.checks[n]]
         IN  IF o.kind = "raise"
             THEN RunChecksFrom(registered, outcome,
                                NextAfterRaise(i, Len(registered)),
                                [overall_healthy |-> FALSE, checks |-> entries])
             ELSE RunChecksFrom(registered, outcome, i + 1,
                                [overall_healthy |-> acc.overall_healthy
                                                      /\ GetHealthy(o),
                                 checks |-> entries])

\* HealthChecker.run_all_checks and the status code that health_check gives
RunAllChecks(registered, outcome) ==
    LET r == RunChecksFrom(registered, outcome, 1,
                           [overall_healthy |-> TRUE, checks |-> <<>>])
        status == IF r.overall_healthy THEN "healthy" ELSE "unhealthy"
    IN  [status |-> status, checks |-> r.checks,
         code |-> IF status = "healthy" THEN 200 ELSE 503,
         given |-> outcome]

\* the names in the order of registration
Registered == {checks[i] : i \in 1 .. Len(checks)}

\* the frame of the health checker
HealthFrame ==
    /\ UNCHANGED <<procVars, breakers, cb, clients, handles, planVars,
                   request_count, callVars, lastCall, lastGet, returned, retired,
                   succeeded, threadVars, stats>>
    /\ UNCHANGED <<cacheVars, query_stats, logged>>

\* HealthChecker.register_check(name, check_func): a new name goes to the end
\* of the dictionary, a known name keeps its place
register_check(name) ==
    /\ checks' = IF name \in Registered THEN checks ELSE Append(checks, name)
    /\ UNCHANGED health
    /\ HealthFrame

\* GET /health: run_all_checks with the outcome of every registered check
health_check(outcome) ==
    /\ health' = RunAllChecks(checks, outcome)
    /\ UNCHANGED checks
    /\ HealthFrame

(* --------------------------- DatabaseMonitor --------------------------- *)
\* SQL statements given to record_query ('UNKNOWN' is what handle_error
\* passes for an error without a statement)
Queries == {" select 1", "INSERT INTO t VALUES (1)", "VACUUM", "UNKNOWN"}

\* query.strip().upper()
StripUpper(query) == IF query = " select 1" THEN "SELECT 1" ELSE query

\* the first word of the statement
FirstWord(query) ==
    IF query = "SELECT 1" THEN "SELECT"
    ELSE IF query = "INSERT INTO t VALUES (1)" THEN "INSERT"
    ELSE query

\* DatabaseMonitor._get_query_type
GetQueryType(query) ==
    LET w == FirstWord(StripUpper(query)) IN
    IF w \in {"SELECT", "INSERT", "UPDATE", "DELETE"} THEN w ELSE "OTHER"

\* durations, in units of SLOW_QUERY_THRESHOLD / 2
Durations == {1, 3}

\* self.slow_query_threshold, in the same unit
SlowQueryThreshold == 2

\* the entry made for a query type seen for the first time.  avg_duration is
\* kept as the fraction num / den that the division gave; calls and failures
\* count the record_query calls of the type and those with success=False.
NewQueryStats ==
    [count |-> 0, total_duration |-> 0, avg_duration |-> [num |-> 0, den |-> 1],
     slow_queries |-> 0, errors |-> 0, calls |-> 0, failures |-> 0]

\* the entry of a type after record_query(query, duration, success)
Recorded(s, duration, success) ==
    LET c == [s EXCEPT !.count = @ + 1, !.calls = @ + 1] IN
    IF success
    THEN [c EXCEPT !.total_duration = @ + duration,
                   !.avg_duration = [num |-> c.total_duration + duration,
                                     den |-> c.count],
                   !.slow_queries = IF duration > SlowQueryThreshold
                                    THEN @ + 1 ELSE @]
    ELSE [c EXCEPT !.errors = @ + 1, !.failures = @ + 1]

\* DatabaseMonitor.record_query(query, duration, success)
record_query(query, duration, success) ==
    /\ LET query_type == GetQueryType(query)
           s == IF query_type \in DOMAIN query_stats
                THEN query_stats[query_type] ELSE NewQueryStats
       IN  /\ s.count < MaxQueries
           /\ query_stats' = [t \in DOMAIN query_stats \cup {query_type} |->
                                IF t = query_type
                                THEN Recorded(s, duration, success)
                                ELSE query_stats[t]]
    /\ UNCHANGED <<procVars, breakers, cb, clients, handles, planVars,
                   request_count, callVars, lastCall, lastGet, returned, retired,
                   succeeded, threadVars, stats>>
    /\ UNCHANGED <<cacheVars, checks, health, logged>>

(* ------------------------- request logging filter ---------------------- *)
\* A JSON document is the set of its leaves, each with the path that leads to
\* it: the steps of a path are dictionary keys or ListStep, the index of an
\* element of a list.
ListStep == "[0]"

\* dictionary keys of the requests
JsonKeys == {"Password", "monkey", "user"}

\* the values at the leaves
JsonLeaves == {"p1", "bob"}

\* sensitive_keys of _filter_sensitive_data
SensitiveKeys ==
    {"password", "token", "secret", "key", "auth", "authorization", "api_key",
     "access_token", "refresh_token", "csrf_token", "credit_card", "ssn",
     "social_security"}

\* key.lower()
KeyLower(key) == IF key = "Password" THEN "password" ELSE key

\* the substrings of the lower-cased key that matter to the filter
Substrings(key) ==
    IF key = "password" THEN {"password", "pass", "word"}
    ELSE IF key = "monkey" THEN {"monkey", "monk", "key"}
    ELSE IF key = "user" THEN {"user", "use"}
    ELSE {key}

\* any(sensitive_key in key.lower() for sensitive_key in sensitive_keys)
IsSensitive(key) == \E sensitive_key \in SensitiveKeys :
                        sensitive_key \in Substrings(KeyLower(key))

\* isinstance(data, dict): the document has leaves below dictionary keys
IsDict(data) ==
    /\ data # {}
    /\ \A e \in data : Len(e.path) >= 1 /\ e.path[1] # ListStep

\* data[key]: the document below key
ValueAt(data, key) ==
    {[path |-> Tail(e.path), leaf |-> e.leaf] : e \in {x \in data : x.path[1] = key}}

\* the document `value` put under key
Under(key, value) ==
    {[path |-> <<key>> \o e.path, leaf |-> e.leaf] : e \in value}

\* RequestResponseLogger._filter_sensitive_data(data)
RECURSIVE FilterSensitiveData(_)
FilterSensitiveData(data) ==
    IF ~IsDict(data) THEN data
    ELSE UNION {
        LET value == ValueAt(data, key) IN
        IF IsSensitive(key) THEN {[path |-> <<key>>, leaf |-> "[FILTERED]"]}
        ELSE IF IsDict(value) THEN Under(key, FilterSensitiveData(value))
        ELSE Under(key, value)
        : key \in {e.path[1] : e \in data}}

\* _log_request: json_data of the request_started record for a request whose
\* JSON body is body
log_request(body) ==
    /\ logged' = [written |-> TRUE, json_data |-> FilterSensitiveData(body),
                  request |-> body]
    /\ UNCHANGED <<procVars, breakers, cb, clients, handles, planVars,
                   request_count, callVars, lastCall, lastGet, returned, retired,
                   succeeded, threadVars, stats>>
    /\ UNCHANGED <<cacheVars, checks, health, query_stats>>

(* --------------------------- specifications --------------------------- *)
\* what can happen in one pass of the loop: the call expression raises, or the
\* native function answers or fails, with the breaker's clock and counter.
\* The loop reads nothing but `success` of a failure, so one native error
\* stands for all the failures of a provider here.
AttemptInputs ==
    {i \in [native : NativeOutcomes, elapsed : BOOLEAN, trip : BOOLEAN,
            raises : {None, "TypeError"}] :
        /\ i.raises # None => (i.native = Raise("native", <<"Unauthorized">>)
                          /\ ~i.elapsed /\ ~i.trip)
        /\ i.native.kind = "response" =>
              (~i.trip /\ i.native.text = "hello" /\ i.native.wellformed)
        /\ i.native.kind = "raise" => i.native.msg = <<"Unauthorized">>}

\* orchestrated requests.  A key that the caller passes is used for every
\* provider whatever the environment holds, so the calls with a key are run
\* in the environment that holds none.
Next ==
    \/ init_circuit_breakers
    \/ \E primary \in APIProvider, fallbacks \in SeqsUpTo(APIProvider, MaxFallbacks) :
          get_unified_client(primary, fallbacks)
    \/ \E opkind \in {"completion", "chat"}, api_key \in CallKeyArgs :
          /\ api_key # None => \A p \in APIProvider : env[p] = None
          /\ generate_start(opkind, api_key)
    \/ \E i \in AttemptInputs : attempt(i.native, i.elapsed, i.trip, i.raises)
    \/ exhausted
    \/ return

Spec == Init /\ [][Next]_vars

\* the registry used directly
NextFactory ==
    \/ \E provider \in APIProvider, api_key \in ApiKeyArgs :
          get_client(provider, api_key)
    \/ clear_clients

SpecFactory == Init /\ [][NextFactory]_vars

\* the adapters used directly
NextAdapter ==
    \/ init_circuit_breakers
    \/ \E provider \in APIProvider, api_key \in CallKeyArgs \ {None},
          opkind \in {"completion", "chat"}, native \in NativeOutcomes,
          elapsed \in BOOLEAN, trip \in BOOLEAN :
          /\ native.kind = "response" => ~trip
          /\ adapter_call(provider, api_key, opkind, native, elapsed, trip)

\* the adapters take their key from the caller and never read the environment
InitAdapter == Init /\ env = [p \in APIProvider |-> None]

SpecAdapter == InitAdapter /\ [][NextAdapter]_vars

\* the statistics of a client between its requests; the callers pass their key
NextStats ==
    \/ init_circuit_breakers
    \/ \E primary \in APIProvider, fallbacks \in SeqsUpTo(APIProvider, MaxFallbacks) :
          get_unified_client(primary, fallbacks)
    \/ \E opkind \in {"completion", "chat"}, api_key \in CallKeyArgs \ {None} :
          generate_start(opkind, api_key)
    \/ \E i \in AttemptInputs : attempt(i.native, i.elapsed, i.trip, i.raises)
    \/ exhausted
    \/ return
    \/ get_stats

SpecStats == InitAdapter /\ [][NextStats]_vars

\* callers of get_client at the same time
NextRace ==
    \/ \E t \in Threads, provider \in APIProvider, api_key \in CallKeyArgs :
          g_enter(t, provider, api_key)
    \/ \E t \in Threads : g_construct(t)
    \/ \E t \in Threads : g_fetch(t)
    \/ \E t \in Threads : g_leave(t)

SpecRace == Init /\ [][NextRace]_vars

\* callers inside get_client while another caller clears the registry
NextRaceClear ==
    \/ NextRace
    \/ clear_clients

SpecRaceClear == Init /\ [][NextRaceClear]_vars

\* callers of one UnifiedAPIClient at the same time
NextConcurrent ==
    \/ \E primary \in APIProvider, fallbacks \in SeqsUpTo(APIProvider, MaxFallbacks) :
          u_new_client(primary, fallbacks)
    \/ \E t \in Threads, opkind \in {"completion", "chat"},
          api_key \in CallKeyArgs \ {None} :
          u_start(t, opkind, api_key)
    \/ \E t \in Threads, i \in {j \in AttemptInputs : j.raises = None} :
          u_pass(t, i.native, i.elapsed, i.trip)
    \/ \E t \in Threads : u_load(t)
    \/ \E t \in Threads : u_store(t)
    \/ \E t \in Threads : u_exhausted(t)

SpecConcurrent == InitAdapter /\ [][NextConcurrent]_vars

\* application code that initialises the breakers, asks the factory for
\* handles and clears the registry, in any order
NextBreakers ==
    \/ init_circuit_breakers
    \/ \E provider \in APIProvider, api_key \in CallKeyArgs :
          get_client(provider, api_key)
    \/ clear_clients

SpecBreakers == Init /\ [][NextBreakers]_vars

\* the application is created and application code uses the cache
NextCache ==
    \/ \E redis_up \in BOOLEAN : create_app(redis_up)
    \/ \E key \in CacheKeys, fails \in BOOLEAN : cache_get(key, fails)
    \/ \E key \in CacheKeys, value \in CacheValues, fails \in BOOLEAN :
          cache_set(key, value, fails)
    \/ \E key \in CacheKeys, fails \in BOOLEAN : cache_delete(key, fails)
    \/ \E pattern \in CachePatterns, fails \in BOOLEAN :
          cache_invalidate(pattern, fails)
    \/ \E key \in CacheKeys : foreign_write(key)

SpecCache == InitAdapter /\ [][NextCache]_vars

\* paths of at most n steps
PathsUpTo(n) == UNION {[1 .. k -> JsonKeys \cup {ListStep}] : k \in 1 .. n}

\* two leaves can be in one document: neither path goes through the other's
\* leaf, and where the paths part the node is a dictionary
Compatible(e, f) ==
    \E i \in 1 .. Len(e.path) :
        /\ i <= Len(f.path)
        /\ \A j \in 1 .. i - 1 : e.path[j] = f.path[j]
        /\ e.path[i] # f.path[i]
        /\ e.path[i] # ListStep /\ f.path[i] # ListStep

\* JSON bodies of the requests: one leaf at a depth of up to MaxDepth, or two
\* leaves at a depth of up to MaxDepth - 1
JsonBodies ==
    {{[path |-> p, leaf |-> l]} : p \in PathsUpTo(MaxDepth), l \in JsonLeaves}
    \cup {d \in {{e, f} : e, f \in [path : PathsUpTo(MaxDepth - 1),
                                      leaf : JsonLeaves]} :
            /\ Cardinality(d) = 2
            /\ \A e, f \in d : e # f => Compatible(e, f)}

\* requests with a JSON body are logged
NextLog == \E body \in JsonBodies : log_request(body)

SpecLog == InitAdapter /\ [][NextLog]_vars

\* the engine listeners record the queries that ran and those that failed
\* (handle_error records a failure with duration 0)
NextMonitor ==
    \/ \E query \in Queries, duration \in Durations :
          record_query(query, duration, TRUE)
    \/ \E query \in Queries : record_query(query, 0, FALSE)

SpecMonitor == InitAdapter /\ [][NextMonitor]_vars

\* checks are registered and the health endpoint is asked
NextHealth ==
    \/ \E name \in CheckNames :
          /\ \/ name \in Registered
             \/ Len(checks) < Len(CheckOrder) /\ name = CheckOrder[Len(checks) + 1]
          /\ register_check(name)
    \/ \E outcome \in [Registered -> CheckOutcomes] : health_check(outcome)

SpecHealth == InitAdapter /\ [][NextHealth]_vars

\* what a provider does in a pass of an ai_chat request: it refuses the call
\* or answers with a text, which may be empty
ChatInputs ==
    {Raise("native", <<"Unauthorized">>)} \cup
    [kind : {"response"}, text : {"hello", Empty}, model : {"m1"},
     input_tokens : {2}, output_tokens : {1}, wellformed : {TRUE}]

\* both providers have a key in the environment
InitChat == Init /\ env = [p \in APIProvider |-> "k1"]

\* the application is created and serves ai_chat requests one at a time
NextChat ==
    \/ \E redis_up \in BOOLEAN : create_app(redis_up)
    \/ \E message \in Messages \cup {None}, provider \in APIProvider,
          fails \in BOOLEAN : ai_chat_enter(message, provider, fails)
    \/ \E native \in ChatInputs : attempt(native, FALSE, FALSE, None)
    \/ exhausted
    \/ \E fails \in BOOLEAN : ai_chat_finish(fails)

SpecChat == InitChat /\ [][NextChat]_vars

\* base_url and model keywords that callers pass
BaseUrlArgs == {None, "https://proxy.example/v1"}
ModelArgs == {None, "gpt-3.5-turbo"}

\* application code that asks the factory for handles with its own base URL
\* and model, and clears the registry
NextOverrides ==
    \/ \E provider \in APIProvider, api_key \in CallKeyArgs,
          base_url \in BaseUrlArgs, model \in ModelArgs :
          get_client_with(provider, api_key, base_url, model)
    \/ clear_clients

SpecOverrides == Init /\ [][NextOverrides]_vars

(* ------------------------------- claims ------------------------------- *)
\* the provider has a credential for the running call: the api_key argument
\* or the provider's environment variable
HasCredential(p) == Truthy(kwargs.api_key) \/ Truthy(env[p])

\* pass i of the running call ended without a success
FailedPass(i) == trace[i].outcome \in {"failed", "lookup_raised", "call_raised"}
RaisedPass(i) == trace[i].outcome \in {"lookup_raised", "call_raised"}

\* C1: when the first N-1 providers of the plan fail and the Nth adapter
\* returns a success, the call has returned exactly that response (payload and
\* provider as the adapter gave them) and has made no pass after the Nth.
C1_FirstSuccessReturned ==
    \A n \in 1 .. Len(trace) :
        (trace[n].outcome = "success" /\ \A i \in 1 .. (n - 1) : FailedPass(i)) =>
            /\ pc = "done"
            /\ result = trace[n].resp
            /\ result.success
            /\ result.provider = Providers[n]
            /\ Len(trace) = n

\* C1 witness: openai failed, the fallback anthropic answered "hello"
C1_Witness ==
    /\ pc = "done"
    /\ Len(trace) = 2
    /\ trace[1].provider = OPENAI /\ trace[1].outcome = "failed"
    /\ trace[2].provider = ANTHROPIC /\ trace[2].outcome = "success"
    /\ result.data = "hello"

C3_ResponseGivesSuccess ==
    (/\ lastCall.kind = "call"
     /\ lastCall.breaker \in {"closed", "none"}
     /\ lastCall.native.kind = "response"
     /\ lastCall.native.wellformed) =>
        /\ lastCall.resp.success
        /\ lastCall.resp.data =
              IF lastCall.provider = OPENAI /\ lastCall.opkind = "completion"
              THEN Strip(lastCall.native.text) ELSE lastCall.native.text
        /\ lastCall.resp.model = lastCall.native.model
        /\ lastCall.resp.tokens_used =
              lastCall.native.input_tokens + lastCall.native.output_tokens

\* C4: an orchestrated call never ends by raising to its caller; it ends by
\* returning a success or the aggregate failure.
C4_NeverRaises ==
    /\ pc # "raised"
    /\ pc = "done" =>
          \/ result.success /\ result.data # None
          \/ ~result.success /\ result.error = <<"All AI providers failed">>

\* C4 witness: a call in which a handle lookup raised and an adapter call
\* raised has returned
C4_Witness ==
    /\ pc = "done"
    /\ \E i \in 1 .. Len(trace) : trace[i].outcome = "lookup_raised"
    /\ \E i \in 1 .. Len(trace) : trace[i].outcome = "call_raised"

\* C5: a pass in which get_client or the adapter call raised is a failed
\* attempt: the call is not aborted, and the next pass is for the next provider
\* of the plan; after the last provider the aggregate failure is returned.
C5_RaiseIsFailedAttempt ==
    \A i \in 1 .. Len(trace) :
        RaisedPass(i) =>
            /\ pc # "raised"
            /\ IF i < Len(Providers)
               THEN \/ Len(trace) > i /\ trace[i + 1].provider = Providers[i + 1]
                    \/ Len(trace) = i /\ pc = "loop" /\ pos = i + 1
               ELSE \/ pc = "loop" /\ pos = i + 1
                    \/ pc = "done" /\ ~result.success

\* C5 witness: the first pass raised, the second provider was attempted and
\* answered
C5_Witness ==
    /\ Len(trace) = 2
    /\ RaisedPass(1)
    /\ trace[2].outcome = "success"

\* C6 (as claimed): when a provider of the plan has no credential, the call
\* gives its caller a MissingCredential failure, and no provider was called
\* over the network before.
C6_MissingCredentialSurfaced ==
    (pc = "done" /\ \E i \in 1 .. Len(Providers) : ~HasCredential(Providers[i])) =>
        /\ ~result.success
        /\ \E p \in APIProvider : result.error = <<p, "API key not provided">>
        /\ \A i \in 1 .. Len(trace) : ~trace[i].net

\* C6 (amended): a provider without credential is a failed attempt: its
\* lookup raises before any network call to it, the call goes on, and the
\* caller gets the success of a provider that has a credential or the
\* aggregate failure, never a MissingCredential failure.
C6_MissingCredentialIsFailedAttempt ==
    /\ pc # "raised"
    /\ \A i \in 1 .. Len(trace) :
          ~HasCredential(trace[i].provider) =>
              trace[i].outcome = "lookup_raised" /\ ~trace[i].net
    /\ (pc = "done" /\ \E i \in 1 .. Len(Providers) : ~HasCredential(Providers[i])) =>
          IF result.success
          THEN HasCredential(result.provider)
          ELSE result.error = <<"All AI providers failed">>

\* C6 witness: a provider was called over the network, then the lookup of a
\* provider without credential raised, and the call has returned
C6_Witness ==
    /\ pc = "done"
    /\ \E i, j \in 1 .. Len(trace) :
          i < j /\ trace[i].net /\ trace[j].outcome = "lookup_raised"

\* C7: get_client takes the credential from the api_key argument when it is
\* given (not None, not empty) and else from the provider's environment
\* variable; with neither it raises APIClientError, returns no handle, and the
\* raising call constructs no handle and leaves the registry as it was.
C7_CredentialResolution ==
    /\ [](lastGet.kind # "none" =>
            LET want == IF lastGet.arg \notin {None, Empty}
                        THEN lastGet.arg ELSE env[lastGet.provider]
            IN  /\ lastGet.api_key = want
                /\ want \in Keys => lastGet.kind = "handle" /\ lastGet.handle > 0
                /\ want \notin Keys => lastGet.kind = "raise" /\ lastGet.handle = 0)
    /\ [][lastGet'.kind = "raise" => clients' = clients /\ handles' = handles]_vars

\* C7 witness: get_client raised for want of a credential while the registry
\* held a handle
C7_Witness ==
    /\ lastGet.kind = "raise"
    /\ lastGet.arg = Empty
    /\ DOMAIN clients # {}

\* C8: between two clears, all get_client calls for the same (provider,
\* credential) pair return the same handle.
C8_SameHandle ==
    \A t, u \in returned : (t[1] = u[1] /\ t[2] = u[2]) => t[3] = u[3]

\* C8 witness: a pair is asked for again after another handle was constructed,
\* and gets the handle constructed for it
C8_Witness ==
    /\ lastGet.kind = "handle"
    /\ lastGet.handle < Len(handles)
    /\ handles[lastGet.handle].api_key = lastGet.api_key
    /\ handles[lastGet.handle].provider = lastGet.provider

\* C9 (as claimed): two different (provider, credential) pairs never get the
\* same handle.
C9_DistinctHandles ==
    \A t, u \in returned : (t[1] # u[1] \/ t[2] # u[2]) => t[3] # u[3]

\* C10: after clear_clients the registry is empty until get_client is called
\* again, and no handle handed out after the clear is a handle handed out
\* before it.
C10_ClearThenNew ==
    /\ returned = {} => DOMAIN clients = {}
    /\ \A t \in returned, u \in retired : t[3] # u[3]

\* C10 witness: a pair asked for before the clear was asked for again after it
C10_Witness ==
    \E t \in returned, u \in retired : t[1] = u[1] /\ t[2] = u[2]

\* the keywords of _handle_error found in a message, whatever their case
Keywords(msg) ==
    {Lower(msg[i]) : i \in 1 .. Len(msg)}
        \cap {"rate limit", "authentication", "unauthorized", "quota", "billing"}

\* the failure reason that the classification rules give to a message
Classification(msg) ==
    IF "rate limit" \in Keywords(msg) THEN <<"Rate limit exceeded">>
    ELSE IF Keywords(msg) \cap {"authentication", "unauthorized"} # {}
    THEN <<"Authentication failed">>
    ELSE IF Keywords(msg) \cap {"quota", "billing"} # {}
    THEN <<"API quota exceeded">>
    ELSE <<"API error: ">> \o msg

\* C11: _handle_error gives a message the reason of the first rule that
\* matches it, in the order rate limit, authentication/unauthorized,
\* quota/billing, else "API error: <message>"; the match ignores case, the
\* reason depends on the message alone, and a message with "Rate limit
\* exceeded for requests" is RateLimited.
C11_ClassifiedByFirstMatch ==
    (lastCall.kind = "call" /\ lastCall.handled # <<>>) =>
        /\ ~lastCall.resp.success
        /\ lastCall.resp.error = Classification(lastCall.handled)
        /\ lastCall.resp.provider = lastCall.provider
        /\ lastCall.handled[1] = "Rate limit" =>
              lastCall.resp.error = <<"Rate limit exceeded">>

\* C11 witness: a message with a quota keyword before "Rate limit" was
\* classified as RateLimited
C11_Witness ==
    /\ lastCall.kind = "call"
    /\ lastCall.handled = <<"quota", "Rate limit">>
    /\ lastCall.resp.error = <<"Rate limit exceeded">>

\* C12 (as claimed): when the open breaker of the provider rejects the call,
\* the adapter's result carries a reason of its own, which is none of
\* RateLimited, AuthFailed, QuotaExceeded and not the catch-all
\* "API error: <message>".
C12_OpenIsServiceUnavailable ==
    (lastCall.kind = "call" /\ lastCall.breaker = "open") =>
        /\ ~lastCall.resp.success
        /\ lastCall.resp.error \notin
              {<<"Rate limit exceeded">>, <<"Authentication failed">>,
               <<"API quota exceeded">>}
        /\ Len(lastCall.resp.error) > 0
        /\ lastCall.resp.error[1] # "API error: "

OneOfPayloadAndReason(r) ==
    /\ r.success => (r.data # None /\ r.error = NoError)
    /\ ~r.success => (r.error # NoError /\ r.data = None)

\* C15: every APIResponse that an adapter returned in a pass and every
\* APIResponse that the orchestrated call returns has a payload and no
\* failure reason when success=true, a failure reason and no payload when
\* success=false.
C15_PayloadXorReason ==
    /\ \A i \in 1 .. Len(trace) :
          trace[i].outcome \in {"success", "failed"} =>
              OneOfPayloadAndReason(trace[i].resp)
    /\ pc = "done" => OneOfPayloadAndReason(result)

\* C15 witness: an adapter returned a classified failure, the next one a
\* success, and the call has returned it
C15_Witness ==
    /\ pc = "done"
    /\ Len(trace) = 2
    /\ trace[1].resp.error = <<"Authentication failed">>
    /\ trace[2].resp.success
    /\ result.success

\* C13: a pass that finds the provider's breaker open makes no network call,
\* gets a failed APIResponse from the adapter, and the loop goes on to the
\* next provider of the plan (after the last one the call returns the
\* aggregate failure).
C13_OpenBreakerSkipsProvider ==
    \A i \in 1 .. Len(trace) :
        trace[i].open =>
            /\ ~trace[i].net
            /\ trace[i].outcome = "failed"
            /\ ~trace[i].resp.success
            /\ pc # "raised"
            /\ IF i < Len(Providers)
               THEN \/ Len(trace) > i /\ trace[i + 1].provider = Providers[i + 1]
                    \/ Len(trace) = i /\ pc = "loop" /\ pos = i + 1
               ELSE \/ Len(trace) = i /\ pc = "loop" /\ pos = i + 1
                    \/ Len(trace) = i /\ pc = "done" /\ result = AllFailed

\* C13 witness: the first pass found the breaker open, the second pass was
\* made for the fallback
C13_Witness ==
    /\ Len(trace) = 2
    /\ trace[1].open
    /\ ~trace[1].net
    /\ trace[2].provider = fallback_providers[1]

C17_CountsSuccesses ==
    /\ request_count = succeeded
    /\ pc = "done" =>
          request_count = entry_count + (IF result.success THEN 1 ELSE 0)

\* C17 witness: after one successful call on the client, a call in which
\* every provider failed has returned and the count is still 1
C17_Witness ==
    /\ pc = "done"
    /\ ~result.success
    /\ Len(trace) = 2
    /\ entry_count = 1
    /\ request_count = 1
    /\ succeeded = 1

\* C18 (as claimed): when the callers that run at the same time on one client
\* have all returned with a success, request_count has grown (from 0, for a
\* new client) by the number of these callers.
C18_NoLostCount ==
    (\A t \in Threads : th[t].pc = "returned" /\ th[t].success) =>
        request_count = Cardinality(Threads)

\* the adapter objects constructed for a (provider, credential) pair
HandlesOf(provider, api_key) ==
    {h \in 1 .. Len(handles) :
        handles[h].provider = provider /\ handles[h].api_key = api_key}

\* C19 (as claimed): callers that ask at the same time for the same
\* (provider, credential) pair get the same handle, and at most one adapter
\* object is constructed for the pair.
C19_OneHandlePerPair ==
    /\ \A t, u \in Threads :
          (/\ th[t].pc = "returned" /\ th[u].pc = "returned"
           /\ th[t].provider = th[u].provider /\ th[t].api_key = th[u].api_key) =>
              th[t].handle = th[u].handle
    /\ \A p \in APIProvider, k \in Keys : Cardinality(HandlesOf(p, k)) <= 1

\* C20: get_stats changes neither request_count, the plan, the registry nor
\* the breakers; it returns the plan and the count of the client as they are,
\* so that a second call with no request in between returns the same primary
\* provider, fallback providers and request count as the first.
C20_StatsReadOnly ==
    [][(stats' # stats /\ stats'.calls > 0) =>
         /\ UNCHANGED <<request_count, primary_provider, fallback_providers,
                        clients, handles, breakers, cb>>
         /\ stats'.primary_provider = primary_provider
         /\ stats'.fallback_providers = fallback_providers
         /\ stats'.request_count = request_count
         /\ stats.calls > 0 =>
               /\ stats'.primary_provider = stats.primary_provider
               /\ stats'.fallback_providers = stats.fallback_providers
               /\ stats'.request_count = stats.request_count]_vars

\* C20 witness: get_stats was called twice in a row on a client that has
\* counted a request, with handles in the registry and breakers configured
C20_Witness ==
    /\ stats.calls = 2
    /\ stats.request_count = 1
    /\ DOMAIN clients # {}
    /\ stats.circuit_breaker_states[ANTHROPIC] = "closed"

\* the handles the registry holds now
InRegistry == {clients[k] : k \in DOMAIN clients}

\* C21: every handle in the registry references the process-wide breaker of
\* its provider, the one get_openai_breaker / get_anthropic_breaker return now
\* (so all handles of one provider share one breaker object), whatever the
\* order of init_circuit_breakers, get_client and clear_clients
C21_HandlesShareProcessBreaker ==
    \A h \in InRegistry :
        handles[h].circuit_breaker = breakers[handles[h].provider]

\* C26: under every interleaving of get_client with a concurrent
\* clear_clients, a get_client call either returns a handle for the pair it
\* asked for or fails with APIClientError, never with any other error
C26_HandleOrAPIClientError ==
    \A t \in Threads :
        /\ th[t].pc = "raised" => th[t].exc = "APIClientError"
        /\ th[t].pc = "returned" =>
              /\ th[t].handle \in 1 .. Len(handles)
              /\ handles[th[t].handle].provider \in {th[t].provider, None}

\* C27: the handle that get_client returns has the base URL and the default
\* model requested by that call (the argument, else the environment variable,
\* else the provider's default), also when a handle for the same pair was
\* constructed earlier with other overrides
C27_HandleHasRequestedOverrides ==
    lastGet.kind = "handle" =>
        /\ handles[lastGet.handle].model =
              PyOr(lastGet.model, EnvModel(lastGet.provider))
        /\ handles[lastGet.handle].base_url =
              PyOr(PyOr(lastGet.base_url, EnvBaseUrl(lastGet.provider)),
                   DefaultBaseUrl(lastGet.provider))

\* C24: CacheManager.get, set, delete and invalidate_pattern never let an
\* error out, whatever the failure of the backing store (connection error,
\* undecodable value, missing or partial client)
C24_CacheNeverRaises ==
    lastCache.op # None => lastCache.raised = None

\* C25: once create_app has run its initialisation steps, the CacheManager
\* that get_cache_manager returns is backed by the client that init_redis
\* installed (a connection or a MockRedisClient), never by None
C25_ManagerBackedByInstalledClient ==
    cache_manager.made =>
        /\ cache_manager.redis_client.kind # "none"
        /\ cache_manager.redis_client = redis_client

\* C22: ai_chat consults the cache before it orchestrates; when the cache
\* holds a value for the message's key, that value is returned and neither
\* the orchestrator nor an adapter is invoked
C22_CachedValueReturned ==
    (chat.phase = "responded" /\ chat.held # NoValue /\ chat.held[1] = "json") =>
        /\ chat.cached
        /\ chat.response = chat.held[2]
        /\ ~chat.orchestrated

\* the data behind the client of the CacheManager
ManagerData(st) == st[Slot(cache_manager.redis_client)]

\* C23: in the ai_chat flow the cache is written only after an orchestrated
\* call that returned success, with the payload of that call under the key
\* of the request; a request whose orchestration failed leaves the cache
\* as it was
C23_CacheWrittenOnlyAfterSuccess ==
    [][store' # store =>
          /\ chat.phase = "orchestrating"
          /\ pc = "done"
          /\ result.success
          /\ store' = [store EXCEPT ![Slot(cache_manager.redis_client)] =
                          Stored(@, MakeKey(ChatKey(chat.message)),
                                 JsonDumps(result.data))]]_vars

\* a request was answered by an orchestrated success and the cache holds the
\* payload under the key of the request
C23_Witness ==
    /\ chat.phase = "responded"
    /\ chat.status = 200
    /\ chat.orchestrated
    /\ ~chat.cached
    /\ Lookup(ManagerData(store), MakeKey(ChatKey(chat.message))) =
          JsonDumps(chat.response)

\* C28: run_all_checks runs every registered check and reports 'healthy'
\* exactly when every check returned healthy=true; a check that raises is
\* recorded as unhealthy with its error message and does not keep the
\* remaining checks from running
C28_HealthyIffAllChecksHealthy ==
    health.status # None =>
        /\ DOMAIN health.checks = DOMAIN health.given
        /\ health.status \in {"healthy", "unhealthy"}
        /\ health.status = "healthy" <=>
              \A n \in DOMAIN health.given :
                  /\ health.given[n].kind = "return"
                  /\ health.given[n].has_healthy
                  /\ health.given[n].healthy
        /\ \A n \in DOMAIN health.given :
              IF health.given[n].kind = "raise"
              THEN /\ health.checks[n].has_healthy
                   /\ ~health.checks[n].healthy
                   /\ health.checks[n].error = health.given[n].error
              ELSE /\ health.checks[n].has_healthy = health.given[n].has_healthy
                   /\ health.checks[n].healthy = health.given[n].healthy
                   /\ health.checks[n].error = None

\* the first of several checks raised and a later one ran and was healthy
C28_Witness ==
    /\ Len(checks) >= 3
    /\ DOMAIN health.given = Registered
    /\ health.given[checks[1]].kind = "raise"
    /\ health.given[checks[2]].kind = "return" /\ health.given[checks[2]].healthy
    /\ health.checks[checks[2]].healthy
    /\ health.status = "unhealthy"

\* C29: after any sequence of record_query calls, for every query type with
\* count > 0: avg_duration = total_duration / count, count is the number of
\* calls of that type, and errors is the number of those with success=False
C29_AverageIsTotalOverCount ==
    \A t \in DOMAIN query_stats :
        query_stats[t].count > 0 =>
            /\ query_stats[t].avg_duration.num * query_stats[t].count =
                  query_stats[t].total_duration * query_stats[t].avg_duration.den
            /\ query_stats[t].count = query_stats[t].calls
            /\ query_stats[t].errors = query_stats[t].failures

\* the path goes through a key that the filter holds to be sensitive
ThroughSensitive(path) ==
    \E i \in 1 .. Len(path) : path[i] # ListStep /\ IsSensitive(path[i])

\* C30: _filter_sensitive_data replaces, at every nesting depth, every value
\* under a key whose lower-cased name contains one of the sensitive
\* substrings by '[FILTERED]' and leaves every other entry unchanged, so that
\* no such value reaches the request log
C30_NoSensitiveValueLogged ==
    logged.written =>
        /\ \A e \in logged.json_data :
              ThroughSensitive(e.path) =>
                  /\ e.leaf = "[FILTERED]"
                  /\ ~ThroughSensitive(SubSeq(e.path, 1, Len(e.path) - 1))
        /\ \A e \in logged.request :
              ~ThroughSensitive(e.path) => e \in logged.json_data

====
